---- MODULE Spec2Model ----
(***************************************************************************)
(* django-govbrds: the settings cascade and renderer lookup of core.py and *)
(* the pagination context of templatetags/django_govbrds.py.               *)
(*                                                                         *)
(* Every operation is a synchronous call: a state holds the host           *)
(* application's settings object, the pending call with its arguments, and *)
(* once the call has run, what it returned or raised.                      *)
(*                                                                         *)
(* Python values are encoded as follows.                                   *)
(*   - an optional value (None or v) is <<>> or <<v>>;                     *)
(*   - a str that the code only compares or passes on is a TLA+ string;    *)
(*   - a str that the code parses (a URL, a query string) is the sequence  *)
(*     of the code points of its characters; a bytes value is the sequence *)
(*     of its bytes;                                                       *)
(*   - the str of CSS classes, which the code only assembles, is the       *)
(*     sequence of the pieces it is assembled from;                        *)
(*   - a dotted path is the sequence of its segments;                      *)
(*   - a dict that is serialized is the sequence of its <<key, value>>     *)
(*     items in insertion order; a dict that is only looked up is a        *)
(*     function on its keys;                                               *)
(*   - a settings value is tagged with its Python type.                    *)
(***************************************************************************)
EXTENDS Integers, Sequences, FiniteSets, TLC

VARIABLES settings, call, ret, pc

vars == <<settings, call, ret, pc>>

(***************************************************************************)
(* Bounds of the model.                                                    *)
(***************************************************************************)
MaxPages == 7
MaxNumber == 8
MaxWindow == 6
MaxNegWindow == 2
MaxBaseFields == 2
MaxExtraFields == 2
MaxHostKeys == 2

None == <<>>
Some(v) == <<v>>

Max(a, b) == IF a >= b THEN a ELSE b
Min(a, b) == IF a <= b THEN a ELSE b

Return(v) == [kind |-> "return", value |-> v]
Raise(e) == [kind |-> "raise", exc |-> e]

(***************************************************************************)
(* get_pagination_context: the page window.                                *)
(***************************************************************************)

\* if pages_to_show < 1: raise ValueError
\* (variant: zero accepted)
InvalidPagesToShow_Mutant(pages_to_show) == pages_to_show < 0
InvalidPagesToShow(pages_to_show) == pages_to_show < 1

\* delta_pages = int(floor(pages_to_show / 2))
DeltaPages(pages_to_show) == pages_to_show \div 2

\* first_page = max(1, current_page - delta_pages)
FirstPage(current_page, delta_pages) == Max(1, current_page - delta_pages)

\* pages_back = max(1, first_page - delta_pages) if first_page > 1 else None
PagesBack(first_page, delta_pages) ==
    IF first_page > 1 THEN Some(Max(1, first_page - delta_pages)) ELSE None

\* last_page = first_page + pages_to_show - 1
\* if pages_back is None: last_page += 1
\* (variant: the slot of the absent back link not reclaimed)
ExtendLast_Mutant(first_page, pages_to_show, pages_back) ==
    first_page + pages_to_show - 1
\* (variant: "last_page += 1" outside its test of pages_back)
ExtendLast_Always(first_page, pages_to_show, pages_back) ==
    first_page + pages_to_show
ExtendLast(first_page, pages_to_show, pages_back) ==
    LET last_page == first_page + pages_to_show - 1
    IN  IF pages_back = None THEN last_page + 1 ELSE last_page

\* if last_page > num_pages: last_page = num_pages
\* (variant: no clamp)
ClampLast_Mutant(last_page, num_pages) == last_page
ClampLast(last_page, num_pages) ==
    IF last_page > num_pages THEN num_pages ELSE last_page

\* the else branch of "if last_page < num_pages": if first_page > 1: first_page -= 1
\* (variant: shifted without the test first_page > 1)
ShiftFirst_Mutant(first_page) == first_page - 1
ShiftFirst(first_page) == IF first_page > 1 THEN first_page - 1 ELSE first_page

\* the else branch: if pages_back is not None and pages_back > 1: pages_back -= 1
\*                  else: pages_back = None
ShiftBack(pages_back) ==
    IF pages_back # None /\ pages_back[1] > 1
    THEN Some(pages_back[1] - 1)
    ELSE None

\* for i in range(first_page, last_page + 1): pages_shown.append(i)
PagesShown(first_page, last_page) ==
    [i \in 1..Max(0, last_page + 1 - first_page) |-> first_page + i - 1]

\* The window part of get_pagination_context, assignment by assignment.
Window(num_pages, current_page, pages_to_show) ==
    LET delta_pages == DeltaPages(pages_to_show)
        first_page0 == FirstPage(current_page, delta_pages)
        pages_back0 == PagesBack(first_page0, delta_pages)
        last_page == ClampLast(ExtendLast(first_page0, pages_to_show, pages_back0),
                               num_pages)
        forward == last_page < num_pages
        pages_forward == IF forward
                         THEN Some(Min(last_page + delta_pages, num_pages))
                         ELSE None
        first_page == IF forward THEN first_page0 ELSE ShiftFirst(first_page0)
        pages_back == IF forward THEN pages_back0 ELSE ShiftBack(pages_back0)
    IN  [num_pages |-> num_pages,
         current_page |-> current_page,
         first_page |-> first_page,
         last_page |-> last_page,
         pages_shown |-> PagesShown(first_page, last_page),
         pages_back |-> pages_back,
         pages_forward |-> pages_forward]

(***************************************************************************)
(* get_pagination_context: the URL.  A str is the sequence of the code     *)
(* points of its characters: "a=1" is <<97, 61, 49>>, written              *)
(* Text(<<"a", "=", "1">>).                                                *)
(***************************************************************************)

\* The printable ASCII characters in code order, " " (32) first; the double
\* quote, the backslash and the grave accent stand under their names.
Ascii ==
    <<" ", "!", "QUOTATION MARK", "#", "$", "%", "&", "'", "(", ")", "*", "+", ",", "-", ".", "/",
      "0", "1", "2", "3", "4", "5", "6", "7", "8", "9", ":", ";", "<", "=", ">", "?",
      "@", "A", "B", "C", "D", "E", "F", "G", "H", "I", "J", "K", "L", "M", "N", "O",
      "P", "Q", "R", "S", "T", "U", "V", "W", "X", "Y", "Z", "[", "REVERSE SOLIDUS", "]", "^", "_",
      "GRAVE ACCENT", "a", "b", "c", "d", "e", "f", "g", "h", "i", "j", "k", "l", "m", "n", "o",
      "p", "q", "r", "s", "t", "u", "v", "w", "x", "y", "z", "{", "|", "}", "~">>

\* ord(c) of a printable ASCII character
Ord(c) == 31 + (CHOOSE i \in 1..Len(Ascii) : Ascii[i] = c)

\* the str made of the printable ASCII characters cs
Text(cs) == [i \in 1..Len(cs) |-> Ord(cs[i])]

\* s.find(d): the index of the first character d of s, 0 if there is none
RECURSIVE Find(_, _, _)
Find(s, d, i) ==
    IF i > Len(s) THEN 0
    ELSE IF s[i] = d THEN i
    ELSE Find(s, d, i + 1)

Contains(s, d) == Find(s, d, 1) # 0

\* s.split(d, 1) when d occurs in s
Before(s, d) == SubSeq(s, 1, Find(s, d, 1) - 1)
After(s, d) == SubSeq(s, Find(s, d, 1) + 1, Len(s))

\* s.split(d)
RECURSIVE Split(_, _)
Split(s, d) ==
    IF Contains(s, d)
    THEN <<Before(s, d)>> \o Split(After(s, d), d)
    ELSE <<s>>

\* d.join(parts)
RECURSIVE Join(_, _)
Join(parts, d) ==
    IF Len(parts) = 0 THEN <<>>
    ELSE IF Len(parts) = 1 THEN parts[1]
    ELSE parts[1] \o <<d>> \o Join(Tail(parts), d)

\* s.rfind(d): the index of the last character d of s, 0 if there is none
RECURSIVE RFind(_, _, _)
RFind(s, d, i) ==
    IF i < 1 THEN 0
    ELSE IF s[i] = d THEN i
    ELSE RFind(s, d, i - 1)

\* urllib.parse._splitparams(path): the parameters are what follows the
\* first ";" of the last segment of the path
SplitParams(path) ==
    LET slash == RFind(path, Ord("/"), Len(path))
        i == Find(path, Ord(";"), IF slash > 0 THEN slash ELSE 1)
    IN  IF i = 0 THEN <<path, <<>> >>
        ELSE <<SubSeq(path, 1, i - 1), SubSeq(path, i + 1, Len(path))>>

\* urllib.parse.urlparse on a relative reference, a url that is empty or
\* begins with one "/" and holds no tab, carriage return or line feed: it
\* has no scheme and no netloc, the fragment is what follows the first "#",
\* the query what follows the first "?" of the rest.
UrlParse(url) ==
    LET nofrag == IF Contains(url, Ord("#")) THEN Before(url, Ord("#")) ELSE url
        fragment == IF Contains(url, Ord("#")) THEN After(url, Ord("#")) ELSE <<>>
        noquery == IF Contains(nofrag, Ord("?")) THEN Before(nofrag, Ord("?")) ELSE nofrag
        query == IF Contains(nofrag, Ord("?")) THEN After(nofrag, Ord("?")) ELSE <<>>
        split == SplitParams(noquery)
    IN  [scheme |-> <<>>, netloc |-> <<>>, path |-> split[1], params |-> split[2],
         query |-> query, fragment |-> fragment]

\* urllib.parse.urlunparse of such a six-tuple
UrlUnparse(parts) ==
    parts.path
    \o (IF parts.params # <<>> THEN <<Ord(";")>> \o parts.params ELSE <<>>)
    \o (IF parts.query # <<>> THEN <<Ord("?")>> \o parts.query ELSE <<>>)
    \o (IF parts.fragment # <<>> THEN <<Ord("#")>> \o parts.fragment ELSE <<>>)

\* the value of a hexadecimal digit of either case, -1 for any other character
HexValue(c) ==
    IF Ord("0") <= c /\ c <= Ord("9") THEN c - Ord("0")
    ELSE IF Ord("A") <= c /\ c <= Ord("F") THEN c - Ord("A") + 10
    ELSE IF Ord("a") <= c /\ c <= Ord("f") THEN c - Ord("a") + 10
    ELSE 0 - 1

\* urllib.parse.unquote_to_bytes of an ASCII str: "%" and two hexadecimal
\* digits make one byte, any other "%" stays as it is
RECURSIVE UnquoteToBytes(_)
UnquoteToBytes(s) ==
    IF Len(s) = 0 THEN <<>>
    ELSE IF /\ s[1] = Ord("%")
            /\ Len(s) >= 3
            /\ HexValue(s[2]) >= 0
            /\ HexValue(s[3]) >= 0
    THEN <<16 * HexValue(s[2]) + HexValue(s[3])>> \o UnquoteToBytes(SubSeq(s, 4, Len(s)))
    ELSE <<s[1]>> \o UnquoteToBytes(Tail(s))

\* The number of continuation bytes that the lead byte b of a UTF-8 sequence
\* announces, -1 for a byte that cannot lead.
Utf8Need(b) ==
    IF b < 128 THEN 0
    ELSE IF 194 <= b /\ b <= 223 THEN 1
    ELSE IF 224 <= b /\ b <= 239 THEN 2
    ELSE IF 240 <= b /\ b <= 244 THEN 3
    ELSE 0 - 1

\* whether c can be the k-th continuation byte after the lead byte b
Utf8Continues(b, k, c) ==
    IF k > 1 THEN 128 <= c /\ c <= 191
    ELSE IF b = 224 THEN 160 <= c /\ c <= 191
    ELSE IF b = 237 THEN 128 <= c /\ c <= 159
    ELSE IF b = 240 THEN 144 <= c /\ c <= 191
    ELSE IF b = 244 THEN 128 <= c /\ c <= 143
    ELSE 128 <= c /\ c <= 191

\* how many of the continuation bytes that bs[1] announces follow it, from k on
RECURSIVE Utf8Good(_, _)
Utf8Good(bs, k) ==
    IF k <= Utf8Need(bs[1]) /\ k + 1 <= Len(bs) /\ Utf8Continues(bs[1], k, bs[k + 1])
    THEN Utf8Good(bs, k + 1)
    ELSE k - 1

\* the code point that the complete UTF-8 sequence bs encodes
Utf8CodePoint(bs) ==
    IF Len(bs) = 1 THEN bs[1]
    ELSE IF Len(bs) = 2 THEN (bs[1] - 192) * 64 + (bs[2] - 128)
    ELSE IF Len(bs) = 3 THEN (bs[1] - 224) * 4096 + (bs[2] - 128) * 64 + (bs[3] - 128)
    ELSE (bs[1] - 240) * 262144 + (bs[2] - 128) * 4096 + (bs[3] - 128) * 64
         + (bs[4] - 128)

\* bs.decode("utf-8", "replace"): U+FFFD stands for a byte that cannot lead
\* and for the bytes of a sequence cut short
RECURSIVE Utf8Decode(_)
Utf8Decode(bs) ==
    IF Len(bs) = 0 THEN <<>>
    ELSE LET need == Utf8Need(bs[1])
             good == Utf8Good(bs, 1)
         IN  IF need >= 0 /\ good = need
             THEN <<Utf8CodePoint(SubSeq(bs, 1, need + 1))>>
                  \o Utf8Decode(SubSeq(bs, need + 2, Len(bs)))
             ELSE <<65533>> \o Utf8Decode(SubSeq(bs, Max(good, 0) + 2, Len(bs)))

\* the length of the longest prefix of s made of ASCII characters (ascii
\* TRUE) or of other characters (ascii FALSE)
RECURSIVE RunLength(_, _)
RunLength(s, ascii) ==
    IF Len(s) > 0 /\ ((s[1] < 128) <=> ascii)
    THEN 1 + RunLength(Tail(s), ascii)
    ELSE 0

\* The loop of urllib.parse.unquote: the ASCII runs of the str are decoded,
\* what lies between them is kept.
RECURSIVE UnquoteRuns(_)
UnquoteRuns(s) ==
    IF Len(s) = 0 THEN <<>>
    ELSE LET ascii == s[1] < 128
             n == RunLength(s, ascii)
             run == SubSeq(s, 1, n)
         IN  (IF ascii THEN Utf8Decode(UnquoteToBytes(run)) ELSE run)
             \o UnquoteRuns(SubSeq(s, n + 1, Len(s)))

\* urllib.parse.unquote(s)
Unquote(s) == IF Contains(s, Ord("%")) THEN UnquoteRuns(s) ELSE s

\* s.replace("+", " ")
PlusToSpace(s) == [i \in 1..Len(s) |-> IF s[i] = Ord("+") THEN Ord(" ") ELSE s[i]]

\* unquote(s.replace("+", " ")) as parse_qsl applies it to a name or value
UnquotePlus(s) == Unquote(PlusToSpace(s))

\* a surrogate code point, which str.encode("utf-8") refuses
IsSurrogate(c) == 55296 <= c /\ c <= 57343

\* c.encode("utf-8") of one character that is not a surrogate
Utf8EncodeChar(c) ==
    IF c < 128 THEN <<c>>
    ELSE IF c < 2048 THEN <<192 + (c \div 64), 128 + (c % 64)>>
    ELSE IF c < 65536
    THEN <<224 + (c \div 4096), 128 + ((c \div 64) % 64), 128 + (c % 64)>>
    ELSE <<240 + (c \div 262144), 128 + ((c \div 4096) % 64), 128 + ((c \div 64) % 64),
           128 + (c % 64)>>

\* s.encode("utf-8")
RECURSIVE Utf8Encode(_)
Utf8Encode(s) ==
    IF Len(s) = 0 THEN <<>>
    ELSE Utf8EncodeChar(s[1]) \o Utf8Encode(Tail(s))

\* urllib.parse._ALWAYS_SAFE: the letters, the digits and "_", ".", "-", "~"
AlwaysSafe ==
    (Ord("A")..Ord("Z")) \cup (Ord("a")..Ord("z")) \cup (Ord("0")..Ord("9"))
    \cup {Ord("_"), Ord("."), Ord("-"), Ord("~")}

\* the upper-case hexadecimal digit of n in 0..15
HexDigit(n) == IF n < 10 THEN Ord("0") + n ELSE Ord("A") + (n - 10)

\* What quote_plus writes for one byte: the byte itself when it is always
\* safe, "+" for a space, "%XX" for any other.
QuoteByte(b) ==
    IF b \in AlwaysSafe THEN <<b>>
    ELSE IF b = Ord(" ") THEN <<Ord("+")>>
    ELSE <<Ord("%"), HexDigit(b \div 16), HexDigit(b % 16)>>

RECURSIVE QuoteBytes(_)
QuoteBytes(bs) ==
    IF Len(bs) = 0 THEN <<>>
    ELSE QuoteByte(bs[1]) \o QuoteBytes(Tail(bs))

\* quote_plus(s) as urlencode applies it to a key or value
QuotePlus(s) == QuoteBytes(Utf8Encode(s))

\* The test parse_qsl makes before it keeps a field: with keep_blank_values
\* left at its default a field with an empty value is skipped.
KeepsField(nv) == Len(nv) = 2 /\ Len(nv[2]) > 0

\* urllib.parse.parse_qsl(qs): the <<name, value>> pairs of qs
RECURSIVE ParseQslFields(_)
ParseQslFields(fields) ==
    IF Len(fields) = 0 THEN <<>>
    ELSE LET name_value == fields[1]
             nv == IF Contains(name_value, Ord("="))
                   THEN <<Before(name_value, Ord("=")), After(name_value, Ord("="))>>
                   ELSE <<name_value>>
             rest == ParseQslFields(Tail(fields))
         IN  IF Len(name_value) = 0 THEN rest
             ELSE IF KeepsField(nv)
             THEN << <<UnquotePlus(nv[1]), UnquotePlus(nv[2])>> >> \o rest
             ELSE rest
ParseQsl(qs) == IF Len(qs) = 0 THEN <<>> ELSE ParseQslFields(Split(qs, Ord("&")))

\* dict operations on a sequence of <<key, value>> items
RECURSIVE DictIndex(_, _, _)
DictIndex(d, k, i) ==
    IF i > Len(d) THEN 0
    ELSE IF d[i][1] = k THEN i
    ELSE DictIndex(d, k, i + 1)
DictHas(d, k) == DictIndex(d, k, 1) # 0
DictGet(d, k) == d[DictIndex(d, k, 1)][2]
\* d[k] = v: an existing key keeps its place, a new key goes last
DictSet(d, k, v) ==
    IF DictHas(d, k)
    THEN [d EXCEPT ![DictIndex(d, k, 1)] = <<k, v>>]
    ELSE Append(d, <<k, v>>)
\* d.update(e)
RECURSIVE DictUpdate(_, _)
DictUpdate(d, e) ==
    IF Len(e) = 0 THEN d
    ELSE DictUpdate(DictSet(d, e[1][1], e[1][2]), Tail(e))

\* urllib.parse.parse_qs(qs): name -> list of values, in order of appearance
RECURSIVE ParseQsPairs(_, _)
ParseQsPairs(parsed, pairs) ==
    IF Len(pairs) = 0 THEN parsed
    ELSE LET name == pairs[1][1]
             value == pairs[1][2]
         IN  ParseQsPairs(
                 IF DictHas(parsed, name)
                 THEN DictSet(parsed, name, Append(DictGet(parsed, name), value))
                 ELSE DictSet(parsed, name, <<value>>),
                 Tail(pairs))
ParseQs(qs) == ParseQsPairs(<<>>, ParseQsl(qs))

\* django.utils.http.urlencode(params, doseq=True) of a dict of lists
RECURSIVE EncodeValues(_, _)
EncodeValues(k, vs) ==
    IF Len(vs) = 0 THEN <<>>
    ELSE <<QuotePlus(k) \o <<Ord("=")>> \o QuotePlus(vs[1])>> \o EncodeValues(k, Tail(vs))
RECURSIVE EncodeItems(_)
EncodeItems(d) ==
    IF Len(d) = 0 THEN <<>>
    ELSE EncodeValues(d[1][1], d[1][2]) \o EncodeItems(Tail(d))
UrlEncode(d) == Join(EncodeItems(d), Ord("&"))

\* params = parse_qs(parts.query); if extra: params.update(parse_qs(extra))
MergeParams(query, extra) ==
    LET params == ParseQs(query)
    IN  IF extra # None /\ extra[1] # <<>>
        THEN DictUpdate(params, ParseQs(extra[1]))
        ELSE params

\* urlencode raises UnicodeEncodeError when a key or a value of the dict
\* holds a surrogate, which quote_plus cannot encode
HasSurrogate(s) == \E i \in 1..Len(s) : IsSurrogate(s[i])
UrlEncodeRaises(d) ==
    \E i \in 1..Len(d) :
        \/ HasSurrogate(d[i][1])
        \/ \E j \in 1..Len(d[i][2]) : HasSurrogate(d[i][2][j])

\* whether the URL part of get_pagination_context raises
PaginationUrlRaises(url, extra) ==
    UrlEncodeRaises(MergeParams(UrlParse(IF url # None THEN url[1] ELSE <<>>).query, extra))

\* The URL part of get_pagination_context.
PaginationUrl(url, extra) ==
    LET parts == UrlParse(IF url # None THEN url[1] ELSE <<>>)
    IN  UrlUnparse([parts EXCEPT !.query = UrlEncode(MergeParams(parts.query, extra))])

(***************************************************************************)
(* get_pagination_context: the CSS classes and the whole function.         *)
(***************************************************************************)

\* Python truth of an optional str: None and "" are false
Truthy(opt) == opt # None /\ opt[1] # ""

\* if justify_content in ["start", "center", "end"]
ValidJustify(justify_content) == justify_content \in {"start", "center", "end"}

\* "if justify_content:", the guard of the justification check
\* (variant: "if justify_content is not None:")
ChecksJustify_Mutant(justify_content) == justify_content # None
ChecksJustify(justify_content) == Truthy(justify_content)

\* What get_pagination_context(page, **kwargs) returns or raises.  The URL is
\* built before the CSS classes.  The module neither defines nor imports
\* get_size_class, so the branch "if size:" ends in a NameError.
GetPaginationContext(c) ==
    IF InvalidPagesToShow(c.pages_to_show)
    THEN Raise("ValueError: pages_to_show")
    ELSE IF PaginationUrlRaises(c.url, c.extra)
    THEN Raise("UnicodeEncodeError")
    ELSE IF Truthy(c.size)
    THEN Raise("NameError: get_size_class")
    ELSE IF ChecksJustify(c.justify_content) /\ ~ValidJustify(c.justify_content[1])
    THEN Raise("ValueError: justify_content")
    ELSE LET w == Window(c.num_pages, c.number, c.pages_to_show)
             classes == << <<"pagination">> >>
                        \o (IF ChecksJustify(c.justify_content)
                            THEN << <<"justify-content-", c.justify_content[1]>> >>
                            ELSE <<>>)
         IN  Return([govbrds_pagination_url |-> PaginationUrl(c.url, c.extra),
                     num_pages |-> w.num_pages,
                     current_page |-> w.current_page,
                     first_page |-> w.first_page,
                     last_page |-> w.last_page,
                     pages_shown |-> w.pages_shown,
                     pages_back |-> w.pages_back,
                     pages_forward |-> w.pages_forward,
                     pagination_css_classes |-> Join(classes, " "),
                     parameter_name |-> c.parameter_name])

\* The tag govbrds_pagination(page, **kwargs) passes its arguments on.
govbrds_pagination ==
    /\ pc = "ready"
    /\ call.op = "govbrds_pagination"
    /\ ret' = GetPaginationContext(call)
    /\ pc' = "done"
    /\ UNCHANGED <<settings, call>>

(***************************************************************************)
(* The calls of the pagination tag that the model explores.                *)
(***************************************************************************)

\* settings without a GOVBRDS attribute
NoSettings == <<>>

\* "/list?sort=name&page=1" and "page=3"
ExampleUrl ==
    Text(<<"/", "l", "i", "s", "t", "?", "s", "o", "r", "t", "=", "n", "a", "m", "e",
           "&", "p", "a", "g", "e", "=", "1">>)
ExampleExtra == Text(<<"p", "a", "g", "e", "=", "3">>)

JustifyValues ==
    {None, Some(""), Some("start"), Some("center"), Some("end"), Some("left")}
SizeValues == {None, Some("large")}

\* <<num_pages, page.number, pages_to_show>>: every small case, and the
\* 100-page example
WindowInputs ==
    ((0..MaxPages) \X (1..MaxNumber) \X ((0 - MaxNegWindow)..MaxWindow))
    \cup {<<100, 50, 11>>, <<100, 100, 11>>}

PaginationCall(win, url, size, justify_content, extra) ==
    [op |-> "govbrds_pagination",
     num_pages |-> win[1], number |-> win[2], pages_to_show |-> win[3],
     url |-> url, size |-> size, justify_content |-> justify_content,
     extra |-> extra, parameter_name |-> "page"]

InitPlan ==
    /\ settings = NoSettings
    /\ pc = "ready"
    /\ ret = None
    /\ \E win \in WindowInputs, size \in SizeValues, j \in JustifyValues :
           call = PaginationCall(win, Some(ExampleUrl), size, j, Some(ExampleExtra))

NextPagination == govbrds_pagination

SpecPlan == InitPlan /\ [][NextPagination]_vars

(***************************************************************************)
(* The URLs and extra query strings that the model explores: a path with   *)
(* up to MaxBaseFields query fields, with or without a fragment, or no url *)
(* at all; up to MaxExtraFields fields of extra, or no extra at all.       *)
(***************************************************************************)
QueryFields ==
    { Text(<<"p", "a", "g", "e", "=", "1">>),
      Text(<<"p", "a", "g", "e", "=", "3">>),
      Text(<<"s", "o", "r", "t", "=", "n", "a", "m", "e">>),
      Text(<<"s", "o", "r", "t", "=">>),
      Text(<<"s", "o", "r", "t">>),
      Text(<<"q", "=", "a", "+", "b">>),
      \* escapes that quote_plus writes otherwise: "q=a%20b", "q=%41%3d"
      Text(<<"q", "=", "a", "%", "2", "0", "b">>),
      Text(<<"q", "=", "%", "4", "1", "%", "3", "d">>),
      \* characters that quote_plus escapes: "next=/a:b", "t=50%,%zz"
      Text(<<"n", "e", "x", "t", "=", "/", "a", ":", "b">>),
      Text(<<"t", "=", "5", "0", "%", ",", "%", "z", "z">>),
      \* UTF-8 in escapes, well-formed and not: "n=%C3%A9", "n=%e9x"
      Text(<<"n", "=", "%", "C", "3", "%", "A", "9">>),
      Text(<<"n", "=", "%", "e", "9", "x">>),
      \* characters outside ASCII: "c=" U+00E9 "%41", "s=" U+D800
      Text(<<"c", "=">>) \o <<233>> \o Text(<<"%", "4", "1">>),
      Text(<<"s", "=">>) \o <<55296>> }

FieldLists(n) == UNION { [1..k -> QueryFields] : k \in 0..n }

\* the paths of the explored URLs: "/list" and "/list;v=1"
Paths ==
    { Text(<<"/", "l", "i", "s", "t">>),
      Text(<<"/", "l", "i", "s", "t", ";", "v", "=", "1">>) }

BaseUrl(path, fields, fragment) ==
    path
    \o (IF Len(fields) > 0 THEN <<Ord("?")>> \o Join(fields, Ord("&")) ELSE <<>>)
    \o (IF fragment THEN Text(<<"#", "t", "o", "p">>) ELSE <<>>)

UrlValues ==
    {None} \cup { Some(BaseUrl(p, fs, fr)) :
                       p \in Paths, fs \in FieldLists(MaxBaseFields), fr \in BOOLEAN }
ExtraValues ==
    {None} \cup { Some(Join(fs, Ord("&"))) : fs \in FieldLists(MaxExtraFields) }

InitUrl ==
    /\ settings = NoSettings
    /\ pc = "ready"
    /\ ret = None
    /\ \E url \in UrlValues, extra \in ExtraValues :
           call = PaginationCall(<<100, 50, 11>>, url, None, None, extra)

SpecUrl == InitUrl /\ [][NextPagination]_vars

(***************************************************************************)
(* Properties of the page window.                                          *)
(***************************************************************************)
Returned == pc = "done" /\ ret.kind = "return"
Raised(e) == pc = "done" /\ ret = Raise(e)

\* 1 <= currentPage <= max(totalPages, 1)
NumberInRange == 1 <= call.number /\ call.number <= Max(call.num_pages, 1)

\* C1: for totalPages >= 0, windowSize >= 1 and 1 <= currentPage <=
\* max(totalPages, 1), the returned pages_shown is contiguous and strictly
\* ascending, every element lies in [1, totalPages], and it is empty if and
\* only if totalPages = 0.
C1_PagesShownWellFormed ==
    (Returned /\ call.pages_to_show >= 1 /\ NumberInRange) =>
        LET shown == ret.value.pages_shown
        IN  /\ \A i \in 1..(Len(shown) - 1) : shown[i + 1] = shown[i] + 1
            /\ \A i \in 1..Len(shown) : 1 <= shown[i] /\ shown[i] <= call.num_pages
            /\ (Len(shown) = 0) <=> (call.num_pages = 0)

\* a window that the clamp to num_pages cut short, still several pages long
C1_Witness ==
    /\ Returned /\ NumberInRange
    /\ call.num_pages > 0
    /\ call.number + call.pages_to_show > call.num_pages + 1
    /\ Len(ret.value.pages_shown) >= 3
    /\ ret.value.pages_shown[Len(ret.value.pages_shown)] = call.num_pages

\* C2: for totalPages > 0, windowSize >= 1 and currentPage in
\* [1, totalPages], 1 <= first_page <= currentPage <= last_page <= totalPages.
C2_CurrentPageInWindow ==
    (Returned /\ call.pages_to_show >= 1 /\ call.num_pages > 0
        /\ 1 <= call.number /\ call.number <= call.num_pages) =>
        /\ 1 <= ret.value.first_page
        /\ ret.value.first_page <= call.number
        /\ call.number <= ret.value.last_page
        /\ ret.value.last_page <= call.num_pages

\* the window reaches the end and was shifted left by one
C2_Witness ==
    /\ Returned
    /\ call.num_pages > 0 /\ call.number = call.num_pages
    /\ ret.value.last_page = call.num_pages
    /\ 1 < ret.value.first_page
    /\ ret.value.first_page = call.number - DeltaPages(call.pages_to_show) - 1

\* The seven steps of the planner's reference algorithm.
RefWindow(totalPages, currentPage, windowSize) ==
    LET delta == windowSize \div 2
        firstPage2 == IF currentPage - delta > 1 THEN currentPage - delta ELSE 1
        backTarget3 == IF firstPage2 > 1
                       THEN (IF firstPage2 - delta > 1 THEN <<firstPage2 - delta>> ELSE <<1>>)
                       ELSE <<>>
        lastPage4 == firstPage2 + windowSize - 1 + (IF backTarget3 = <<>> THEN 1 ELSE 0)
        lastPage == IF lastPage4 <= totalPages THEN lastPage4 ELSE totalPages
        atEnd == ~(lastPage < totalPages)
        forwardTarget == IF atEnd THEN <<>>
                         ELSE (IF lastPage + delta <= totalPages
                               THEN <<lastPage + delta>> ELSE <<totalPages>>)
        firstPage == IF atEnd /\ firstPage2 > 1 THEN firstPage2 - 1 ELSE firstPage2
        backTarget == IF ~atEnd THEN backTarget3
                      ELSE IF backTarget3 # <<>> /\ backTarget3[1] > 1
                      THEN <<backTarget3[1] - 1>>
                      ELSE <<>>
    IN  [firstPage |-> firstPage, lastPage |-> lastPage,
         backTarget |-> backTarget, forwardTarget |-> forwardTarget,
         pagesShown |-> [i \in 1..(IF lastPage >= firstPage
                                   THEN lastPage - firstPage + 1 ELSE 0)
                         |-> firstPage + (i - 1)]]

\* C3: for windowSize >= 1, first_page, last_page, pages_back, pages_forward
\* and pages_shown equal the result of the seven-step reference algorithm;
\* totalPages = 100, currentPage = 50, windowSize = 11 gives firstPage 45,
\* lastPage 55, backTarget 40 and forwardTarget 60.
C3_MatchesReferenceAlgorithm ==
    (Returned /\ call.pages_to_show >= 1) =>
        LET ref == RefWindow(call.num_pages, call.number, call.pages_to_show)
        IN  /\ ret.value.first_page = ref.firstPage
            /\ ret.value.last_page = ref.lastPage
            /\ ret.value.pages_back = ref.backTarget
            /\ ret.value.pages_forward = ref.forwardTarget
            /\ ret.value.pages_shown = ref.pagesShown
            /\ (call.num_pages = 100 /\ call.number = 50 /\ call.pages_to_show = 11) =>
                   /\ ret.value.first_page = 45
                   /\ ret.value.last_page = 55
                   /\ ret.value.pages_back = Some(40)
                   /\ ret.value.pages_forward = Some(60)

\* the 100-page example
C3_Witness ==
    /\ Returned
    /\ call.num_pages = 100 /\ call.number = 50 /\ call.pages_to_show = 11
    /\ ret.value.first_page = 45 /\ ret.value.last_page = 55
    /\ ret.value.pages_back = Some(40) /\ ret.value.pages_forward = Some(60)
    /\ Len(ret.value.pages_shown) = 11

\* C4: for every pages_to_show below 1 the call fails with the
\* pages_to_show ValueError and returns no plan, whatever the other
\* arguments are; for pages_to_show >= 1 this error is not raised.
C4_RejectsNonPositiveWindow ==
    pc = "done" =>
        ((call.pages_to_show < 1) <=> (ret = Raise("ValueError: pages_to_show")))

\* pages_to_show = 0 rejected although the other arguments are good
C4_Witness ==
    /\ Raised("ValueError: pages_to_show")
    /\ call.pages_to_show = 0
    /\ call.num_pages > 0 /\ call.number <= call.num_pages
    /\ call.justify_content = Some("center")
    /\ call.size = None

\* C5: with totalPages = 0, for every windowSize >= 1 and every
\* currentPage >= 1, the call completes without error, pages_shown is empty
\* and pages_back and pages_forward are both absent.  (Stated for calls
\* whose size and justify_content raise nothing.)
C5_EmptyPlanForNoPages ==
    (pc = "done" /\ call.num_pages = 0 /\ call.pages_to_show >= 1
        /\ call.number >= 1 /\ call.size = None /\ call.justify_content = None) =>
        /\ ret.kind = "return"
        /\ ret.value.pages_shown = <<>>
        /\ ret.value.pages_back = None
        /\ ret.value.pages_forward = None

\* C9 as stated: every supplied justify_content other than "start",
\* "center" and "end", the empty string included, makes the call fail; the
\* three values and an omitted justify_content do not raise this error.
C9_Original ==
    pc = "done" =>
        /\ (call.justify_content # None /\ ~ValidJustify(call.justify_content[1]))
               => ret.kind = "raise"
        /\ (call.justify_content = None \/ ValidJustify(call.justify_content[1]))
               => ret # Raise("ValueError: justify_content")

\* C9, amended: a call that reaches the justification check (pages_to_show
\* >= 1, a URL that urlencode can encode, no size) raises the justification
\* ValueError exactly when justify_content is a non-empty string other than
\* "start", "center" and "end"; such a value never lets the call return; the
\* empty string, like an omitted justify_content, raises no such error.
C9_RejectsUnknownJustify ==
    pc = "done" =>
        LET j == call.justify_content
            unknown == j # None /\ j[1] # "" /\ j[1] \notin {"start", "center", "end"}
        IN  /\ (ret = Raise("ValueError: justify_content"))
                   <=> /\ unknown
                       /\ call.pages_to_show >= 1
                       /\ ~PaginationUrlRaises(call.url, call.extra)
                       /\ ~Truthy(call.size)
            /\ unknown => ret.kind = "raise"

\* an unknown justification rejected in an otherwise good call
C9_Witness ==
    /\ Raised("ValueError: justify_content")
    /\ call.justify_content = Some("left")
    /\ call.pages_to_show >= 1
    /\ call.num_pages > 0

(***************************************************************************)
(* Properties of the URL.                                                  *)
(***************************************************************************)

\* The <<name, value>> parameters a raw query string carries, decoded: every
\* field name=value, a field with an empty value (name=) included.
RECURSIVE CarriedFields(_)
CarriedFields(fields) ==
    IF Len(fields) = 0 THEN <<>>
    ELSE LET f == fields[1]
         IN  (IF Contains(f, Ord("="))
              THEN << <<UnquotePlus(Before(f, Ord("="))), UnquotePlus(After(f, Ord("=")))>> >>
              ELSE <<>>)
             \o CarriedFields(Tail(fields))
Carried(qs) == CarriedFields(Split(qs, Ord("&")))

\* the values that the parameters ps carry for name, in order
RECURSIVE ValuesOf(_, _)
ValuesOf(ps, name) ==
    IF Len(ps) = 0 THEN <<>>
    ELSE (IF ps[1][1] = name THEN <<ps[1][2]>> ELSE <<>>) \o ValuesOf(Tail(ps), name)

NamesOf(ps) == { ps[i][1] : i \in 1..Len(ps) }

\* C6: in the URL produced from a base url and an extra query string, a name
\* that occurs in extra carries exactly extra's values; a name that occurs
\* only in the base url's query carries exactly the base url's values in
\* their order, parameters with an empty value included; no other name
\* appears.
C6_MergeReplacesAndPreserves ==
    Returned =>
        LET base == Carried(UrlParse(IF call.url # None THEN call.url[1] ELSE <<>>).query)
            extra == Carried(IF call.extra # None THEN call.extra[1] ELSE <<>>)
            out == Carried(UrlParse(ret.value.govbrds_pagination_url).query)
        IN  \A name \in NamesOf(base) \cup NamesOf(extra) \cup NamesOf(out) :
                ValuesOf(out, name) =
                    IF name \in NamesOf(extra) THEN ValuesOf(extra, name)
                    ELSE ValuesOf(base, name)

(***************************************************************************)
(* core.py: the settings cascade.  A settings value is tagged with its     *)
(* type: <<"None">>, <<"bool", b>>, <<"str", s>>, <<"dict", d>>.           *)
(***************************************************************************)
PyNone == <<"None">>
Str(s) == <<"str", s>>
Bool(b) == <<"bool", b>>
Dict(d) == <<"dict", d>>

GOVBRDS_DEFAULTS ==
    [css_url |-> Dict([url |-> "govbrds3/css/style.min.css"]),
     javascript_url |-> Dict([url |-> "govbrds3/js/script.js"]),
     theme_url |-> PyNone,
     color_mode |-> PyNone,
     javascript_in_head |-> Bool(FALSE),
     wrapper_class |-> Str("mb-3"),
     inline_wrapper_class |-> Str(""),
     horizontal_label_class |-> Str("col-sm-2"),
     horizontal_field_class |-> Str("col-sm-10"),
     horizontal_field_offset_class |-> Str("offset-sm-2"),
     set_placeholder |-> Bool(TRUE),
     checkbox_layout |-> PyNone,
     checkbox_style |-> PyNone,
     required_css_class |-> Str(""),
     error_css_class |-> Str(""),
     success_css_class |-> Str(""),
     server_side_validation |-> Bool(TRUE),
     formset_renderers |->
         Dict([default |-> <<"django_govbrds", "renderers", "FormsetRenderer">>]),
     form_renderers |->
         Dict([default |-> <<"django_govbrds", "renderers", "FormRenderer">>]),
     field_renderers |->
         Dict([default |-> <<"django_govbrds", "renderers", "FieldRenderer">>])]

\* d.get(k, default) of a dict that is a function on its keys
Get(d, k, default) == IF k \in DOMAIN d THEN d[k] ELSE default

\* getattr(settings, "GOVBRDS", {})
HostSettings == Get(settings, "GOVBRDS", <<>>)

\* get_govbrds_setting(name, default=None)
\* (variant: the library defaults consulted before the host settings)
get_govbrds_setting_Mutant(name, default) ==
    Get(GOVBRDS_DEFAULTS, name, Get(HostSettings, name, default))
get_govbrds_setting(name, default) ==
    LET govbrds_settings == HostSettings
    IN  Get(govbrds_settings, name, Get(GOVBRDS_DEFAULTS, name, default))

\* The caller's override of a setting: the renderers read an option with
\* kwargs.get(name, get_govbrds_setting(name, default)), so that a value the
\* caller passes wins over the cascade.
Resolve(kwargs, name, default) ==
    Get(kwargs, name, get_govbrds_setting(name, default))

(***************************************************************************)
(* core.py: the renderer lookup.                                           *)
(***************************************************************************)

\* mod, cls = path.rsplit(".", 1); getattr(import_module(mod), cls): the
\* class cls of module mod (every path of the model names a class that
\* exists)
ImportClass(path) ==
    [module |-> SubSeq(path, 1, Len(path) - 1), class |-> path[Len(path)]]

\* get_renderer(renderers, **kwargs).  Python evaluates renderers["default"],
\* the second argument of renderers.get, before the lookup of layout.
get_renderer(renderers, kwargs) ==
    LET layout == Get(kwargs, "layout", "")
    IN  IF "default" \notin DOMAIN renderers
        THEN Raise("KeyError: default")
        ELSE Return(ImportClass(Get(renderers, layout, renderers["default"])))

get_formset_renderer(kwargs) ==
    get_renderer(get_govbrds_setting("formset_renderers", PyNone)[2], kwargs)

get_form_renderer(kwargs) ==
    get_renderer(get_govbrds_setting("form_renderers", PyNone)[2], kwargs)

get_field_renderer(kwargs) ==
    get_renderer(get_govbrds_setting("field_renderers", PyNone)[2], kwargs)

(***************************************************************************)
(* The calls into core.py.                                                 *)
(***************************************************************************)
GetGovbrdsSetting ==
    /\ pc = "ready"
    /\ call.op = "get_govbrds_setting"
    /\ ret' = Return(get_govbrds_setting(call.name, call.default))
    /\ pc' = "done"
    /\ UNCHANGED <<settings, call>>

ResolveOption ==
    /\ pc = "ready"
    /\ call.op = "resolve"
    /\ ret' = Return(Resolve(call.kwargs, call.name, call.default))
    /\ pc' = "done"
    /\ UNCHANGED <<settings, call>>

GetFormsetRenderer ==
    /\ pc = "ready"
    /\ call.op = "get_formset_renderer"
    /\ ret' = get_formset_renderer(call.kwargs)
    /\ pc' = "done"
    /\ UNCHANGED <<settings, call>>

GetFormRenderer ==
    /\ pc = "ready"
    /\ call.op = "get_form_renderer"
    /\ ret' = get_form_renderer(call.kwargs)
    /\ pc' = "done"
    /\ UNCHANGED <<settings, call>>

GetFieldRenderer ==
    /\ pc = "ready"
    /\ call.op = "get_field_renderer"
    /\ ret' = get_field_renderer(call.kwargs)
    /\ pc' = "done"
    /\ UNCHANGED <<settings, call>>

(***************************************************************************)
(* The host settings and the calls that the model explores: a settings     *)
(* object without GOVBRDS, or with a GOVBRDS table of up to MaxHostKeys    *)
(* entries.  A renderer map of the host has any of the keys "default",     *)
(* "horizontal" and "" (none included); another setting of the host is a   *)
(* string or None.                                                         *)
(***************************************************************************)
RendererNames == {"formset_renderers", "form_renderers", "field_renderers"}
OptionNames == {"wrapper_class", "theme_url", "foo"}
SettingNames == RendererNames \cup OptionNames

HostRenderer ==
    [default |-> <<"myapp", "renderers", "DefaultRenderer">>,
     horizontal |-> <<"myapp", "renderers", "HorizontalRenderer">>]
    @@ ("" :> <<"myapp", "renderers", "PlainRenderer">>)

HostValues(name) ==
    IF name \in RendererNames
    THEN { Dict([k \in keys |-> HostRenderer[k]]) : keys \in SUBSET (DOMAIN HostRenderer) }
    ELSE { Str("host"), PyNone }

HostTables ==
    UNION { { t \in [names -> UNION { HostValues(n) : n \in names }] :
                \A n \in names : t[n] \in HostValues(n) } :
            names \in { ns \in SUBSET SettingNames : Cardinality(ns) <= MaxHostKeys } }

SettingsObjects == {NoSettings} \cup { [GOVBRDS |-> t] : t \in HostTables }

Defaults == {PyNone, Str("fallback")}
OptionKwargs(name) == {<<>>, (name :> Str("override"))}
LayoutKwargs == {<<>>} \cup { [layout |-> l] : l \in {"", "horizontal", "inline"} }

SettingsCalls ==
    { [op |-> "get_govbrds_setting", name |-> n, default |-> d] :
          n \in SettingNames, d \in Defaults }
    \cup UNION { { [op |-> "resolve", name |-> n, default |-> d, kwargs |-> k] :
                       d \in Defaults, k \in OptionKwargs(n) } : n \in SettingNames }
    \cup { [op |-> o, kwargs |-> k] :
               o \in {"get_formset_renderer", "get_form_renderer", "get_field_renderer"},
               k \in LayoutKwargs }

InitSettings ==
    /\ settings \in SettingsObjects
    /\ pc = "ready"
    /\ ret = None
    /\ call \in SettingsCalls

NextSettings ==
    \/ GetGovbrdsSetting
    \/ ResolveOption
    \/ GetFormsetRenderer
    \/ GetFormRenderer
    \/ GetFieldRenderer

SpecSettings == InitSettings /\ [][NextSettings]_vars

(***************************************************************************)
(* Properties of the settings cascade and of the renderer lookup.          *)
(***************************************************************************)

\* the layers of the cascade for the pending call, as optional values
OverrideLayer ==
    IF call.op = "resolve" /\ call.name \in DOMAIN call.kwargs
    THEN Some(call.kwargs[call.name]) ELSE None
HostLayer ==
    IF "GOVBRDS" \in DOMAIN settings /\ call.name \in DOMAIN settings.GOVBRDS
    THEN Some(settings.GOVBRDS[call.name]) ELSE None
LibraryLayer ==
    IF call.name \in DOMAIN GOVBRDS_DEFAULTS
    THEN Some(GOVBRDS_DEFAULTS[call.name]) ELSE None

\* the value of the first of the layers that defines the name
FirstDefined(layers) ==
    LET defined == { i \in 1..Len(layers) : layers[i] # None }
    IN  layers[CHOOSE i \in defined : \A j \in defined : i <= j][1]

\* C7: setting resolution returns the value of the first layer that defines
\* the name, in the order caller override, host settings (GOVBRDS), library
\* defaults (GOVBRDS_DEFAULTS), caller-supplied fallback; when no layer
\* defines the name it returns the fallback, None if none was given, and it
\* raises no error.
C7_CascadeOrder ==
    (pc = "done" /\ call.op \in {"resolve", "get_govbrds_setting"}) =>
        ret = Return(FirstDefined(
                  <<OverrideLayer, HostLayer, LibraryLayer, Some(call.default)>>))

\* all four layers hold a value of their own and the override is returned
C7_Witness ==
    /\ pc = "done" /\ call.op = "resolve"
    /\ OverrideLayer = Some(Str("override"))
    /\ HostLayer = Some(Str("host"))
    /\ LibraryLayer = Some(Str("mb-3"))
    /\ call.default = Str("fallback")
    /\ ret = Return(Str("override"))

\* the renderer map that the pending get_*_renderer call resolves
RendererSetting ==
    CASE call.op = "get_formset_renderer" -> "formset_renderers"
      [] call.op = "get_form_renderer" -> "form_renderers"
      [] call.op = "get_field_renderer" -> "field_renderers"
RendererCall ==
    call.op \in {"get_formset_renderer", "get_form_renderer", "get_field_renderer"}
RendererMap ==
    IF "GOVBRDS" \in DOMAIN settings /\ RendererSetting \in DOMAIN settings.GOVBRDS
    THEN settings.GOVBRDS[RendererSetting][2]
    ELSE GOVBRDS_DEFAULTS[RendererSetting][2]
RequestedLayout == IF "layout" \in DOMAIN call.kwargs THEN call.kwargs.layout ELSE ""

\* the class that a dotted path names
ClassOf(path) ==
    [module |-> [i \in 1..(Len(path) - 1) |-> path[i]], class |-> path[Len(path)]]

\* C8: renderer resolution returns the entry registered under the requested
\* layout key when the capability's map contains that key, and the map's
\* "default" entry when it does not (also when no layout is requested).
C8_RendererLookup ==
    (pc = "done" /\ RendererCall) =>
        /\ RequestedLayout \in DOMAIN RendererMap
               => ret = Return(ClassOf(RendererMap[RequestedLayout]))
        /\ (RequestedLayout \notin DOMAIN RendererMap /\ "default" \in DOMAIN RendererMap)
               => ret = Return(ClassOf(RendererMap["default"]))

\* C10: every renderer map that renderer resolution operates on, the value
\* of formset_renderers, form_renderers or field_renderers obtained through
\* the cascade under any host settings table, is non-empty and has a
\* "default" key.
C10_RendererMapHasDefault ==
    (pc = "done" /\ RendererCall) =>
        /\ DOMAIN RendererMap # {}
        /\ "default" \in DOMAIN RendererMap

(***************************************************************************)
(* Properties of the size of the window and of the jump targets.           *)
(***************************************************************************)

\* C11: for totalPages >= 0, windowSize >= 1 and currentPage in
\* [1, max(totalPages, 1)], pages_shown never has more than windowSize + 1
\* entries.
C11_AtMostOneExtraPage ==
    (Returned /\ call.pages_to_show >= 1 /\ NumberInRange) =>
        Len(ret.value.pages_shown) <= call.pages_to_show + 1

\* a window of exactly windowSize + 1 pages, shifted left at the end of the
\* range and with its back target kept
C11_Witness ==
    /\ Returned /\ NumberInRange
    /\ call.pages_to_show >= 2
    /\ Len(ret.value.pages_shown) = call.pages_to_show + 1
    /\ ret.value.last_page = call.num_pages
    /\ ret.value.first_page > 1
    /\ ret.value.pages_back # None

\* C12: for totalPages > 0, windowSize >= 1 and currentPage in
\* [1, totalPages], no page is left unreachable: if first_page > 1 then
\* pages_back is present, and if last_page < totalPages then pages_forward
\* is present.
C12_HiddenPagesHaveTargets ==
    (Returned /\ call.pages_to_show >= 1 /\ call.num_pages > 0
        /\ 1 <= call.number /\ call.number <= call.num_pages) =>
        /\ ret.value.first_page > 1 => ret.value.pages_back # None
        /\ ret.value.last_page < call.num_pages => ret.value.pages_forward # None

====
